---- MODULE Spec2Model ----
(***************************************************************************)
(* Syncwave receive side: the jitter buffer (receiver_enhanced.py and      *)
(* syncwave_app.py), and the receiver scripts built around it.             *)
(*                                                                         *)
(* A Python Optional is a sequence of length 0 (None) or 1 (a value).      *)
(* A bytes object is a sequence of integers 0..255.                        *)
(***************************************************************************)
EXTENDS Integers, Sequences, FiniteSets, TLC

VARIABLES
    maxlen,      \* JitterBuffer.buffer.maxlen
    buffer,      \* JitterBuffer.buffer, oldest frame first
    op,          \* the JitterBuffer method that returned last
    arg,         \* the argument of the last add
    prev,        \* the buffer as the last method found it
    ret,         \* what the last method returned
    pushed,      \* number of add calls so far; the k-th add pushes frame k
    returned,    \* the frames successful gets returned, in order
    evicted,     \* the frames a full deque dropped on append
    lock,        \* JitterBuffer.lock: its holder, or "free"
    pcP,         \* producer thread: position inside add
    pcC,         \* consumer thread: position inside get / size
    seen,        \* consumer thread: the buffer as get's length test read it
    variant,     \* the script that runs: "enhanced" or "silent"
    state,       \* "AWAITING_HEADER", "STREAMING" or "STOPPED"
    exc,         \* the exception that ended the script, if any
    sockOpen,    \* sock is bound and not closed
    sinkOpen,    \* the PyAudio output stream is open and not closed
    OPUS_AVAILABLE, \* import opuslib succeeded
    config,      \* config: None, or the parsed header
    decoder,     \* decoder: None, or the opuslib.Decoder
    audio_packet_count, \* datagrams the header wait loop skipped
    data,        \* the datagram recvfrom returned last
    packet,      \* parse_audio_packet's result for it (streaming loop)
    packet_count,
    bytes_received,
    total_latency_us,
    latency_count,
    now,         \* the wall clock, in microseconds
    start_time,
    last_report,
    reports,     \* periodic stats lines printed
    summaries,   \* final summaries printed
    added,       \* the frames handed to jitter_buffer.add, in order
    sink,        \* the frames handed to stream.write, in order
    log,         \* what the last loop iteration did, in order
    fed,         \* datagrams received so far
    samples,     \* the latency samples of the session, in order
    line,        \* the figures of the stats line printed last, if any
    dgram,       \* the datagram handed to a parse function on its own
    parser,      \* the parse function applied to it, or "none"
    parsed,      \* what that function returned
    reads,       \* the byte offsets of dgram that function read
    receiver_running, \* SyncWaveApp.receiver_running
    gui_pc,      \* the GUI thread: "idle", or "started" inside start_receiver
    threads      \* the run_receiver threads started so far, in order

jbVars   == <<maxlen, buffer>>
callVars == <<op, arg, prev, ret>>
histVars == <<pushed, returned, evicted>>
concVars == <<lock, pcP, pcC, seen>>
unitVars == <<callVars, histVars, concVars>>
procVars == <<variant, state, exc, sockOpen, sinkOpen, OPUS_AVAILABLE>>
sessVars == <<config, decoder>>
statVars == <<packet_count, bytes_received, total_latency_us, latency_count>>
timeVars == <<now, start_time, last_report>>
loopVars == <<audio_packet_count, data, packet, reports, summaries, added, sink, log, fed>>
outVars  == <<samples, line>>
recvVars == <<procVars, sessVars, statVars, timeVars, loopVars, outVars>>
parseVars == <<dgram, parser, parsed, reads>>
guiVars  == <<receiver_running, gui_pc, threads>>
vars     == <<jbVars, unitVars, recvVars, parseVars, guiVars>>

\* ------------------------------------------------------------ constants

JITTER_BUFFER_SIZE == 10
JITTER_BUFFER_MIN == 3

None == <<>>
Some(x) == <<x>>

\* ---------------------------------------------------------------- bounds

\* bytes appended to a header datagram, 0..MaxPad
MaxPad == 2
\* payload bytes carried by an audio datagram, 0..MaxPayload
MaxPayload == 3
\* start_receiver calls per run
MaxThreads == 3
\* capacities tried besides the default, 1..MaxCap
MaxCap == 4
\* add calls per run
MaxPush == 11
\* datagrams the header wait loop skips per run
MaxSkip == 1
\* datagrams the streaming loop receives per run
MaxStream == 3
\* microseconds between two received datagrams
Tick == 1000000
\* end-to-end scenario: audio frames sent after the header
E2EFrames == 20
\* end-to-end scenario: payload bytes per frame
E2EPayloadLen == 1024
\* end-to-end scenario: microseconds between two frames
E2ESpacing == 10000
\* end-to-end scenario: the receiver's clock is ahead of the sender's by
\* 0..E2ESkewMax milliseconds
E2ESkewMax == 4

Capacities == (1..MaxCap) \cup {JITTER_BUFFER_SIZE}

\* ------------------------------------------------- collections.deque

\* a deque built without maxlen
deque_append_unbounded(buf, size, x) == Append(buf, x)

\* a bounded queue that refuses the new item when full
deque_append_reject(buf, size, x) ==
    IF Len(buf) >= size THEN buf ELSE Append(buf, x)

\* deque(maxlen=size).append(x): a full deque drops its leftmost item
deque_append(buf, size, x) ==
    IF size = 0 THEN <<>>
    ELSE IF Len(buf) >= size THEN Append(Tail(buf), x)
    ELSE Append(buf, x)

\* what a full deque drops on append
deque_dropped(buf, size) ==
    IF size > 0 /\ Len(buf) >= size THEN {Head(buf)} ELSE {}

\* ------------------------------------------------------- JitterBuffer

JitterBuffer_add(buf, size, frame) == deque_append(buf, size, frame)

\* get without the watermark: popleft whenever a frame is held
JitterBuffer_get_nogate(buf) ==
    IF Len(buf) >= 1
    THEN [ret |-> Some(Head(buf)), buffer |-> Tail(buf)]
    ELSE [ret |-> None, buffer |-> buf]

\* get with pop() in place of popleft()
JitterBuffer_get_newest(buf) ==
    IF Len(buf) >= JITTER_BUFFER_MIN
    THEN [ret |-> Some(buf[Len(buf)]), buffer |-> SubSeq(buf, 1, Len(buf) - 1)]
    ELSE [ret |-> None, buffer |-> buf]

\* get that waits for one frame more than the watermark
JitterBuffer_get_late(buf) ==
    IF Len(buf) >= JITTER_BUFFER_MIN + 1
    THEN [ret |-> Some(Head(buf)), buffer |-> Tail(buf)]
    ELSE [ret |-> None, buffer |-> buf]

\* get: popleft when at least JITTER_BUFFER_MIN frames are held, else None
JitterBuffer_get(buf) ==
    IF Len(buf) >= JITTER_BUFFER_MIN
    THEN [ret |-> Some(Head(buf)), buffer |-> Tail(buf)]
    ELSE [ret |-> None, buffer |-> buf]

JitterBuffer_size(buf) == Len(buf)

\* ------------------------------------ JitterBuffer, one caller (SpecJB)

ConcIdle == lock = "free" /\ pcP = "idle" /\ pcC = "idle" /\ seen = <<>>

\* no parse function is called on its own
ParseIdle == dgram = <<>> /\ parser = "none" /\ parsed = None /\ reads = {}

\* no JitterBuffer method has been called
CallIdle ==
    /\ op = "init" /\ arg = None /\ prev = <<>> /\ ret = None
    /\ pushed = 0 /\ returned = <<>> /\ evicted = {}
    /\ ConcIdle

\* the application window exists and no receiver was started
GuiIdle == receiver_running = FALSE /\ gui_pc = "idle" /\ threads = <<>>

UnitIdle == CallIdle /\ ParseIdle /\ GuiIdle

\* no receiver script runs
RecvIdle ==
    /\ variant = "none" /\ state = "STOPPED" /\ exc = None
    /\ sockOpen = FALSE /\ sinkOpen = FALSE /\ OPUS_AVAILABLE = FALSE
    /\ config = None /\ decoder = None
    /\ audio_packet_count = 0 /\ data = None /\ packet = None
    /\ packet_count = 0 /\ bytes_received = 0
    /\ total_latency_us = 0 /\ latency_count = 0
    /\ now = 0 /\ start_time = 0 /\ last_report = 0
    /\ reports = 0 /\ summaries = 0
    /\ added = <<>> /\ sink = <<>> /\ log = <<>> /\ fed = 0
    /\ samples = <<>> /\ line = None

InitJB ==
    /\ maxlen \in Capacities
    /\ buffer = <<>>
    /\ UnitIdle
    /\ RecvIdle

Add ==
    /\ pushed < MaxPush
    /\ LET frame == pushed + 1 IN
        /\ buffer' = JitterBuffer_add(buffer, maxlen, frame)
        /\ evicted' = evicted \cup deque_dropped(buffer, maxlen)
        /\ pushed' = frame
        /\ op' = "add" /\ arg' = Some(frame) /\ prev' = buffer /\ ret' = None
    /\ UNCHANGED <<maxlen, returned, concVars, recvVars, parseVars, guiVars>>

Get ==
    /\ LET r == JitterBuffer_get(buffer) IN
        /\ buffer' = r.buffer
        /\ ret' = r.ret
        /\ returned' = returned \o r.ret
    /\ op' = "get" /\ arg' = None /\ prev' = buffer
    /\ UNCHANGED <<maxlen, pushed, evicted, concVars, recvVars, parseVars, guiVars>>

Size ==
    /\ ret' = Some(JitterBuffer_size(buffer))
    /\ op' = "size" /\ arg' = None /\ prev' = buffer
    /\ UNCHANGED <<jbVars, histVars, concVars, recvVars, parseVars, guiVars>>

NextJB == Add \/ Get \/ Size

SpecJB == InitJB /\ [][NextJB]_vars

\* ------------------- JitterBuffer, producer and consumer threads (SpecConc)

Range(s) == {s[i] : i \in 1..Len(s)}

StrictlyIncreasing(s) == \A i \in 1..Len(s) : \A j \in 1..Len(s) : i < j => s[i] < s[j]

\* a lock that does not wait for its holder
lock_acquire_nowait(who) == lock' = who

\* Lock.__enter__: blocks until the lock is free, then holds it
lock_acquire(who) == lock = "free" /\ lock' = who

\* Lock.__exit__
lock_release(who) == lock' = "free"

\* producer, add: with self.lock
P_Acquire ==
    /\ pcP = "idle" /\ pushed < MaxPush
    /\ lock_acquire("producer")
    /\ pcP' = "append"
    /\ UNCHANGED <<jbVars, callVars, histVars, pcC, seen, recvVars, parseVars, guiVars>>

\* producer, add: self.buffer.append(data)
P_Append ==
    /\ pcP = "append"
    /\ LET frame == pushed + 1 IN
        /\ buffer' = JitterBuffer_add(buffer, maxlen, frame)
        /\ evicted' = evicted \cup deque_dropped(buffer, maxlen)
        /\ pushed' = frame
    /\ pcP' = "release"
    /\ UNCHANGED <<maxlen, callVars, returned, lock, pcC, seen, recvVars, parseVars, guiVars>>

\* producer, add: leaving the with block
P_Release ==
    /\ pcP = "release"
    /\ lock_release("producer")
    /\ pcP' = "idle"
    /\ UNCHANGED <<jbVars, callVars, histVars, pcC, seen, recvVars, parseVars, guiVars>>

\* consumer, get: with self.lock
C_AcquireGet ==
    /\ pcC = "idle"
    /\ lock_acquire("consumer")
    /\ pcC' = "test"
    /\ op' = "get" /\ arg' = None /\ prev' = prev /\ ret' = None
    /\ UNCHANGED <<jbVars, histVars, pcP, seen, recvVars, parseVars, guiVars>>

\* consumer, get: if len(self.buffer) >= JITTER_BUFFER_MIN ... return None
C_Test ==
    /\ pcC = "test"
    /\ seen' = Some(buffer)
    /\ IF Len(buffer) >= JITTER_BUFFER_MIN
       THEN pcC' = "popleft" /\ ret' = ret
       ELSE pcC' = "release" /\ ret' = None
    /\ UNCHANGED <<jbVars, op, arg, prev, histVars, lock, pcP, recvVars, parseVars, guiVars>>

\* consumer, get: return self.buffer.popleft()
C_Popleft ==
    /\ pcC = "popleft"
    /\ buffer # <<>>
    /\ ret' = Some(Head(buffer))
    /\ buffer' = Tail(buffer)
    /\ returned' = Append(returned, Head(buffer))
    /\ pcC' = "release"
    /\ UNCHANGED <<maxlen, op, arg, prev, pushed, evicted, lock, pcP, seen, recvVars, parseVars, guiVars>>

\* consumer, size: with self.lock
C_AcquireSize ==
    /\ pcC = "idle"
    /\ lock_acquire("consumer")
    /\ pcC' = "len"
    /\ op' = "size" /\ arg' = None /\ prev' = prev /\ ret' = None
    /\ UNCHANGED <<jbVars, histVars, pcP, seen, recvVars, parseVars, guiVars>>

\* consumer, size: return len(self.buffer)
C_Len ==
    /\ pcC = "len"
    /\ ret' = Some(JitterBuffer_size(buffer))
    /\ pcC' = "release"
    /\ UNCHANGED <<jbVars, op, arg, prev, histVars, lock, pcP, seen, recvVars, parseVars, guiVars>>

\* consumer, get / size: leaving the with block
C_Release ==
    /\ pcC = "release"
    /\ lock_release("consumer")
    /\ pcC' = "idle" /\ seen' = <<>>
    /\ UNCHANGED <<jbVars, callVars, histVars, pcP, recvVars, parseVars, guiVars>>

NextConc ==
    \/ P_Acquire \/ P_Append \/ P_Release
    \/ C_AcquireGet \/ C_Test \/ C_Popleft
    \/ C_AcquireSize \/ C_Len \/ C_Release

SpecConc == InitJB /\ [][NextConc]_vars

\* ------------------------------------------------------------ bytes

HEADER_MAGIC == <<83, 89, 78, 67>>      \* b"SYNC"
PACKET_TYPE_RAW == 0
PACKET_TYPE_OPUS == 1
\* now - last_report >= 2.0, in microseconds
REPORT_INTERVAL_US == 2000000

Min(a, b) == IF a < b THEN a ELSE b

\* data[a:b], 0 <= a
slice(bs, a, b) == SubSeq(bs, a + 1, Min(b, Len(bs)))

RECURSIVE unpack_le(_)
\* struct.unpack('<I' | '<H' | '<Q', bs)[0]
unpack_le(bs) == IF bs = <<>> THEN 0 ELSE Head(bs) + 256 * unpack_le(Tail(bs))

RECURSIVE pack_le(_, _)
\* the sender's struct.pack('<I' | '<H' | '<Q', n)
pack_le(n, width) ==
    IF width = 0 THEN <<>> ELSE <<n % 256>> \o pack_le(n \div 256, width - 1)

\* bool(bytes): an empty bytes object is falsy
truthy(bs) == Len(bs) > 0

\* ------------------------------------------------------ packet codec

\* parse_header without the magic test
parse_header_nomagic(d) ==
    IF Len(d) < 12 THEN None
    ELSE Some([version |-> d[5],
               sample_rate |-> unpack_le(slice(d, 5, 9)),
               channels |-> unpack_le(slice(d, 9, 11)),
               compression |-> d[12],
               compression_name |-> IF d[12] = 1 THEN "Opus" ELSE "Raw"])

\* parse_audio_packet taking everything after the prefix as the payload
parse_audio_packet_rest(d) ==
    IF Len(d) < 11 THEN None
    ELSE Some([type |-> d[1],
               timestamp |-> unpack_le(slice(d, 1, 9)),
               size |-> unpack_le(slice(d, 9, 11)),
               data |-> slice(d, 11, Len(d))])

\* parse_audio_packet asking for one byte of payload
parse_audio_packet_short(d) ==
    IF Len(d) < 12 THEN None
    ELSE LET size == unpack_le(slice(d, 9, 11)) IN
         Some([type |-> d[1],
               timestamp |-> unpack_le(slice(d, 1, 9)),
               size |-> size,
               data |-> slice(d, 11, 11 + size)])

\* receiver_enhanced.parse_header
parse_header(d) ==
    IF Len(d) < 12 THEN None
    ELSE IF slice(d, 0, 4) # HEADER_MAGIC THEN None
    ELSE Some([version |-> d[5],
               sample_rate |-> unpack_le(slice(d, 5, 9)),
               channels |-> unpack_le(slice(d, 9, 11)),
               compression |-> d[12],
               compression_name |-> IF d[12] = 1 THEN "Opus" ELSE "Raw"])

\* receiver_silent.parse_header
silent_parse_header(d) ==
    IF Len(d) < 10 THEN None
    ELSE IF slice(d, 0, 4) # HEADER_MAGIC THEN None
    ELSE Some([sample_rate |-> unpack_le(slice(d, 4, 8)),
               channels |-> unpack_le(slice(d, 8, 10))])

\* receiver_enhanced.parse_audio_packet
parse_audio_packet(d) ==
    IF Len(d) < 11 THEN None
    ELSE LET size == unpack_le(slice(d, 9, 11)) IN
         Some([type |-> d[1],
               timestamp |-> unpack_le(slice(d, 1, 9)),
               size |-> size,
               data |-> slice(d, 11, 11 + size)])

\* streaming loop, receiver_enhanced: len(data) == 12 and data[:4] == HEADER_MAGIC
is_header_datagram(d) == Len(d) = 12 /\ slice(d, 0, 4) = HEADER_MAGIC

\* streaming loop, receiver_silent: len(data) == 10 and data[:4] == HEADER_MAGIC
silent_is_header_datagram(d) == Len(d) = 10 /\ slice(d, 0, 4) = HEADER_MAGIC

\* ----------------------------------------- datagrams the sender may send

\* [MAGIC][VERSION][SAMPLE_RATE][CHANNELS][COMPRESSION]
HeaderDatagram(version, rate, channels, compression) ==
    HEADER_MAGIC \o <<version>> \o pack_le(rate, 4) \o pack_le(channels, 2)
        \o <<compression>>

\* [MAGIC][SAMPLE_RATE][CHANNELS]
BasicHeaderDatagram(rate, channels) ==
    HEADER_MAGIC \o pack_le(rate, 4) \o pack_le(channels, 2)

\* [TYPE][TIMESTAMP][SIZE][DATA]
AudioDatagram(type, timestamp, size, payload) ==
    <<type>> \o pack_le(timestamp, 8) \o pack_le(size, 2) \o payload

DG_HEADER_RAW  == HeaderDatagram(1, 48000, 2, 0)
DG_HEADER_OPUS == HeaderDatagram(1, 44100, 1, 1)
DG_HEADER_10   == BasicHeaderDatagram(48000, 2)
DG_RAW_A       == AudioDatagram(PACKET_TYPE_RAW, 995000, 2, <<7, 8>>)
DG_RAW_B       == AudioDatagram(PACKET_TYPE_RAW, 9000000, 5, <<9>>)
DG_RAW_EMPTY   == AudioDatagram(PACKET_TYPE_RAW, 1000000, 0, <<>>)
DG_OPUS        == AudioDatagram(PACKET_TYPE_OPUS, 1995000, 2, <<5, 6>>)

Datagrams ==
    {DG_HEADER_RAW, DG_HEADER_OPUS, DG_HEADER_10,
     DG_RAW_A, DG_RAW_B, DG_RAW_EMPTY, DG_OPUS}

\* what decoder.decode_float may give: None for a raised exception, or PCM
DecodeOutcomes == {None, Some(<<200, 201, 202>>)}

\* pyaudio open returns, raises, or the script is interrupted right after it
SinkOutcomes == {"ok", "error", "interrupt"}

\* ------------------------- the parse functions on their own (SpecParse)

\* the offsets parse_header reads: none below 12 bytes, data[:4] for the
\* magic test, then data[4], data[5:9], data[9:11], data[11]
parse_header_reads(d) ==
    IF Len(d) < 12 THEN {}
    ELSE IF slice(d, 0, 4) # HEADER_MAGIC THEN 0..3
    ELSE 0..11

\* the offsets receiver_silent.parse_header reads
silent_parse_header_reads(d) ==
    IF Len(d) < 10 THEN {}
    ELSE IF slice(d, 0, 4) # HEADER_MAGIC THEN 0..3
    ELSE 0..9

\* the offsets parse_audio_packet reads: data[0], data[1:9], data[9:11] and
\* data[11:11+size], a slice that stops at the end of data
parse_audio_packet_reads(d) ==
    IF Len(d) < 11 THEN {}
    ELSE 0..(Min(11 + unpack_le(slice(d, 9, 11)), Len(d)) - 1)

\* struct.unpack's result is below 2^31
fits(bs) == \A i \in 1..Len(bs) : (i = 4 => bs[i] < 128) /\ (i > 4 => bs[i] = 0)

\* byte strings that are not the magic
BadMagics == {<<83, 89, 78, 75>>, <<115, 89, 78, 67>>}

\* payload bytes: the first n of 21, 22, ...
Payload(n) == [i \in 1..n |-> 20 + i]

\* every prefix of bs, and bs followed by up to MaxPad bytes
Resized(bs) ==
    {SubSeq(bs, 1, n) : n \in 0..Len(bs)}
        \cup {bs \o [i \in 1..n |-> 90 + i] : n \in 1..MaxPad}

HeaderInputs ==
    UNION {Resized(m \o SubSeq(HeaderDatagram(v, r, c, k), 5, 12)) :
             m \in {HEADER_MAGIC} \cup BadMagics, v \in {0, 1},
             r \in {0, 44100, 48000}, c \in {1, 2}, k \in {0, 1, 2}}
    \cup
    UNION {Resized(m \o SubSeq(BasicHeaderDatagram(r, c), 5, 10)) :
             m \in {HEADER_MAGIC} \cup BadMagics,
             r \in {0, 44100, 48000}, c \in {1, 2}}

AudioInputs ==
    UNION {Resized(AudioDatagram(t, ts, sz, Payload(n))) :
             t \in {PACKET_TYPE_RAW, PACKET_TYPE_OPUS}, ts \in {0, 995000},
             sz \in (0..(MaxPayload + 1)) \cup {300}, n \in 0..MaxPayload}

ParseInputs == HeaderInputs \cup AudioInputs

InitParse ==
    /\ dgram \in ParseInputs
    /\ parser = "none" /\ parsed = None /\ reads = {}
    /\ maxlen = JITTER_BUFFER_SIZE /\ buffer = <<>>
    /\ CallIdle
    /\ GuiIdle
    /\ RecvIdle

\* parse_header(data), receiver_enhanced
ParseHeader ==
    /\ parser' = "parse_header"
    /\ parsed' = parse_header(dgram)
    /\ reads' = parse_header_reads(dgram)
    /\ UNCHANGED <<dgram, jbVars, unitVars, recvVars, guiVars>>

\* parse_header(data), receiver_silent
SilentParseHeader ==
    /\ parser' = "silent_parse_header"
    /\ parsed' = silent_parse_header(dgram)
    /\ reads' = silent_parse_header_reads(dgram)
    /\ UNCHANGED <<dgram, jbVars, unitVars, recvVars, guiVars>>

\* parse_audio_packet(data)
ParseAudioPacket ==
    /\ Len(dgram) >= 11 => fits(slice(dgram, 1, 9))
    /\ parser' = "parse_audio_packet"
    /\ parsed' = parse_audio_packet(dgram)
    /\ reads' = parse_audio_packet_reads(dgram)
    /\ UNCHANGED <<dgram, jbVars, unitVars, recvVars, guiVars>>

NextParse == ParseHeader \/ SilentParseHeader \/ ParseAudioPacket

SpecParse == InitParse /\ [][NextParse]_vars

\* ----------------------------------------------- the figures of the stats

abs(x) == IF x < 0 THEN 0 - x ELSE x

RECURSIVE gcd(_, _)
gcd(a, b) == IF b = 0 THEN a ELSE gcd(b, a % b)

\* Python floats, kept exact: the fraction n/d in lowest terms, d > 0
rat(n, d) ==
    LET g == gcd(abs(n), abs(d))
        sg == IF d < 0 THEN 0 - 1 ELSE 1
    IN [n |-> sg * (n \div g), d |-> sg * (d \div g)]

int(x) == [n |-> x, d |-> 1]

\* a * b
rmul(a, b) ==
    LET g1 == gcd(abs(a.n), b.d)
        g2 == gcd(abs(b.n), a.d)
    IN [n |-> (a.n \div g1) * (b.n \div g2), d |-> (a.d \div g2) * (b.d \div g1)]

\* a / b, b # 0
rdiv(a, b) == rmul(a, rat(b.d, b.n))

\* a > 0
rpos(a) == a.n > 0

\* time.time() differences are seconds; the clock of the model ticks in
\* microseconds
seconds(us) == rat(us, 1000000)

\* kbps over the time since the last report
kbps_interval(bytes, t, start, last) ==
    rdiv(int(bytes * 8), rmul(seconds(t - last), int(1000)))

\* kbps = (bytes_received * 8) / (elapsed * 1000), elapsed = now - start_time
kbps_session(bytes, t, start, last) ==
    rdiv(int(bytes * 8), rmul(seconds(t - start), int(1000)))

\* (total_latency_us / latency_count) / 1000 if latency_count > 0 else 0
avg_latency_ms(total, count) ==
    IF count > 0 THEN rdiv(rdiv(int(total), int(count)), int(1000)) ELSE int(0)

\* a ratio computed whatever the compression flag says
compression_ratio_always(cfg, kbps) ==
    rmul(rdiv(rmul(kbps, int(1000)),
              int(cfg.sample_rate * cfg.channels * 32)), int(100))

\* compression_ratio = 0; if config['compression'] == 1:
\*     compression_ratio = (kbps * 1000) / uncompressed_bps * 100
compression_ratio(cfg, kbps) ==
    IF cfg.compression = 1
    THEN rmul(rdiv(rmul(kbps, int(1000)),
                   int(cfg.sample_rate * cfg.channels * 32)), int(100))
    ELSE int(0)

\* the periodic stats line of receiver_enhanced; the ratio is printed when
\* compression_ratio > 0
report_line(cfg, packets, bytes, total, count, fill, t, start, last) ==
    LET kbps == kbps_session(bytes, t, start, last)
        ratio == compression_ratio(cfg, kbps)
    IN [kind |-> "report", packets |-> packets, kbps |-> kbps,
        avg_latency_ms |-> Some(avg_latency_ms(total, count)),
        buffer_fill |-> Some(fill),
        compression_ratio |-> IF rpos(ratio) THEN Some(ratio) ELSE None]

\* the final stats of receiver_enhanced (except KeyboardInterrupt)
summary_line(packets, bytes, total, count, t, start) ==
    [kind |-> "summary", packets |-> packets, bytes |-> bytes,
     kbps |-> kbps_session(bytes, t, start, start),
     avg_latency_ms |-> Some(avg_latency_ms(total, count)),
     duration |-> seconds(t - start)]

\* the periodic stats line of receiver_silent; the audio duration is
\* samples / sample_rate / channels, kept as its three operands
silent_report_line(cfg, packets, bytes, t, start, last) ==
    [kind |-> "report", packets |-> packets, bytes |-> bytes,
     kbps |-> kbps_session(bytes, t, start, last),
     audio |-> <<bytes \div 4, cfg.sample_rate, cfg.channels>>]

\* the final stats of receiver_silent (except KeyboardInterrupt)
silent_summary_line(packets, bytes, t, start) ==
    [kind |-> "summary", packets |-> packets, bytes |-> bytes,
     kbps |-> kbps_session(bytes, t, start, start),
     duration |-> seconds(t - start)]

\* ------------------------------------------------------ receiver scripts

\* the state after sock.bind, at the top of the header wait loop
InitRecv ==
    /\ variant \in {"enhanced", "silent"}
    /\ OPUS_AVAILABLE \in (IF variant = "enhanced" THEN BOOLEAN ELSE {FALSE})
    /\ state = "AWAITING_HEADER" /\ exc = None
    /\ sockOpen = TRUE /\ sinkOpen = FALSE
    /\ config = None /\ decoder = None
    /\ audio_packet_count = 0 /\ data = None /\ packet = None
    /\ packet_count = 0 /\ bytes_received = 0
    /\ total_latency_us = 0 /\ latency_count = 0
    /\ now = 0 /\ start_time = 0 /\ last_report = 0
    /\ reports = 0 /\ summaries = 0
    /\ added = <<>> /\ sink = <<>> /\ log = <<>> /\ fed = 0
    /\ samples = <<>> /\ line = None
    /\ maxlen = JITTER_BUFFER_SIZE /\ buffer = <<>>
    /\ UnitIdle

\* statistics that start from the datagrams the header wait skipped
StatsReset_carry ==
    /\ packet_count' = audio_packet_count /\ bytes_received' = 0
    /\ total_latency_us' = 0 /\ latency_count' = 0

\* the statistics as the lines before the streaming loop set them
StatsReset ==
    /\ packet_count' = 0 /\ bytes_received' = 0
    /\ total_latency_us' = 0 /\ latency_count' = 0

\* receiver_enhanced: one pass of the header wait loop on datagram d, after
\* dt microseconds; on a header, the decoder setup, the sink and the jitter
\* buffer up to the streaming loop's try
HeaderWaitOn(cfg, d, dt, decInit, sinkOutcome) ==
    /\ variant = "enhanced" /\ state = "AWAITING_HEADER"
    /\ data' = Some(d) /\ fed' = fed + 1 /\ now' = now + dt
    /\ config' = cfg
    /\ IF cfg = None
       THEN /\ audio_packet_count' = audio_packet_count + 1
            /\ log' = <<"not_header">>
            /\ UNCHANGED <<decoder, state, exc, sinkOpen, start_time, last_report,
                           statVars, jbVars>>
       ELSE /\ decoder' = IF cfg[1].compression = 1 /\ OPUS_AVAILABLE /\ decInit
                          THEN Some("opuslib.Decoder") ELSE None
            /\ log' = <<"header">>
            /\ UNCHANGED audio_packet_count
            /\ sinkOpen' = (sinkOutcome # "error")
            /\ state' = IF sinkOutcome = "ok" THEN "STREAMING" ELSE "STOPPED"
            /\ exc' = CASE sinkOutcome = "ok" -> None
                        [] sinkOutcome = "error" -> Some("OSError")
                        [] OTHER -> Some("KeyboardInterrupt")
            /\ IF sinkOutcome = "ok"
               THEN /\ maxlen' = JITTER_BUFFER_SIZE /\ buffer' = <<>>
                    /\ StatsReset
                    /\ start_time' = now' /\ last_report' = now'
               ELSE UNCHANGED <<jbVars, statVars, start_time, last_report>>
    /\ UNCHANGED <<variant, sockOpen, OPUS_AVAILABLE, packet, reports, summaries,
                   added, sink, outVars, unitVars, parseVars, guiVars>>

\* a header wait loop that falls back to a default config on a datagram
\* parse_header rejects
DefaultConfig ==
    Some([version |-> 1, sample_rate |-> 48000, channels |-> 2,
          compression |-> 0, compression_name |-> "Raw"])

HeaderWait_defaults(d, dt, decInit, sinkOutcome) ==
    HeaderWaitOn(IF parse_header(d) = None THEN DefaultConfig ELSE parse_header(d),
                 d, dt, decInit, sinkOutcome)

HeaderWait(d, dt, decInit, sinkOutcome) ==
    HeaderWaitOn(parse_header(d), d, dt, decInit, sinkOutcome)

\* a stats report that starts a new byte count for the next interval
report_interval_reset(r, t) ==
    IF t - r.last_report >= REPORT_INTERVAL_US
    THEN [r EXCEPT !.reports = @ + 1, !.last_report = t, !.bytes_received = 0,
                   !.line = Some(report_line(r.config[1], r.packet_count,
                                             r.bytes_received, r.total_latency_us,
                                             r.latency_count,
                                             JitterBuffer_size(r.buffer),
                                             t, start_time, r.last_report)),
                   !.log = @ \o <<"report">>]
    ELSE r

\* stats report: every 2 seconds of wall clock, at the end of an iteration
report(r, t) ==
    IF t - r.last_report >= REPORT_INTERVAL_US
    THEN [r EXCEPT !.reports = @ + 1, !.last_report = t,
                   !.line = Some(report_line(r.config[1], r.packet_count,
                                             r.bytes_received, r.total_latency_us,
                                             r.latency_count,
                                             JitterBuffer_size(r.buffer),
                                             t, start_time, r.last_report)),
                   !.log = @ \o <<"report">>]
    ELSE r

\* a loop that plays from the jitter buffer before it adds the frame
play_pop_first(r, frame, t, writeOk) ==
    LET g == JitterBuffer_get(r.buffer)
        r1 == [r EXCEPT !.buffer = JitterBuffer_add(g.buffer, maxlen, frame),
                        !.added = Append(@, frame),
                        !.log = @ \o <<"pop", "push">>]
    IN IF g.ret # None /\ truthy(g.ret[1])
       THEN IF writeOk
            THEN report([r1 EXCEPT !.sink = Append(@, g.ret[1]),
                                   !.log = @ \o <<"write">>], t)
            ELSE [r1 EXCEPT !.state = "STOPPED", !.exc = Some("OSError"),
                            !.log = @ \o <<"write_error">>]
       ELSE report(r1, t)

\* jitter_buffer.add(frame); audio_data = jitter_buffer.get();
\* if audio_data: stream.write(audio_data)
play(r, frame, t, writeOk) ==
    LET g == JitterBuffer_get(JitterBuffer_add(r.buffer, maxlen, frame))
        r1 == [r EXCEPT !.buffer = g.buffer, !.added = Append(@, frame),
                        !.log = @ \o <<"push", "pop">>]
    IN IF g.ret # None /\ truthy(g.ret[1])
       THEN IF writeOk
            THEN report([r1 EXCEPT !.sink = Append(@, g.ret[1]),
                                   !.log = @ \o <<"write">>], t)
            ELSE [r1 EXCEPT !.state = "STOPPED", !.exc = Some("OSError"),
                            !.log = @ \o <<"write_error">>]
       ELSE report(r1, t)

\* a streaming loop that re-reads config from a header datagram
on_duplicate_header_rebind(r, d) ==
    [r EXCEPT !.config = parse_header(d), !.log = <<"skip_header">>]

\* a streaming loop that counts a header datagram as a packet
on_duplicate_header_counts(r, d) ==
    [r EXCEPT !.packet_count = @ + 1, !.bytes_received = @ + Len(d),
              !.log = <<"skip_header">>]

\* streaming loop: a header datagram is skipped
on_duplicate_header(r, d) == [r EXCEPT !.log = <<"skip_header">>]

\* a raw path that forgets the last byte of the payload
raw_frame_truncated(pkt) == SubSeq(pkt.data, 1, Len(pkt.data) - 1)

\* the raw path: jitter_buffer.add(packet['data'])
raw_frame(pkt) == pkt.data

\* a latency sample that is never below zero
latency_us_clamped(t, pkt) ==
    IF t < pkt.timestamp THEN 0 ELSE t - pkt.timestamp

\* latency_us = receive_time - packet['timestamp']
latency_us(t, pkt) == t - pkt.timestamp

\* a decode error that ends the streaming loop
on_decode_error_fatal(r) ==
    [r EXCEPT !.state = "STOPPED", !.exc = Some("Exception"),
              !.log = @ \o <<"decode_error">>]

\* a decode error that takes the packet's latency sample back
on_decode_error_uncounted(r) ==
    [r EXCEPT !.latency_count = @ - 1, !.log = @ \o <<"decode_error">>]

\* except Exception around decode_float: print the error and continue
on_decode_error(r) == [r EXCEPT !.log = @ \o <<"decode_error">>]

\* the streaming loop's body on datagram d read at time t
stream_step(d, t, decoded, writeOk) ==
    LET r0 == [state |-> "STREAMING", exc |-> None,
               config |-> config, decoder |-> decoder, packet |-> None,
               packet_count |-> packet_count, bytes_received |-> bytes_received,
               total_latency_us |-> total_latency_us,
               latency_count |-> latency_count,
               buffer |-> buffer, added |-> added, sink |-> sink,
               last_report |-> last_report, reports |-> reports,
               samples |-> samples, line |-> line, log |-> <<>>]
        pkt == parse_audio_packet(d)
    IN IF is_header_datagram(d) THEN on_duplicate_header(r0, d)
       ELSE IF pkt = None THEN [r0 EXCEPT !.log = <<"malformed">>]
       ELSE LET r1 == [r0 EXCEPT !.packet = pkt,
                                 !.packet_count = @ + 1,
                                 !.bytes_received = @ + Len(d),
                                 !.total_latency_us = @ + latency_us(t, pkt[1]),
                                 !.samples = Append(@, latency_us(t, pkt[1])),
                                 !.latency_count = @ + 1,
                                 !.log = <<"count", "latency">>]
            IN IF pkt[1].type = PACKET_TYPE_OPUS /\ decoder # None
               THEN IF decoded = None
                    THEN on_decode_error(r1)
                    ELSE play([r1 EXCEPT !.log = @ \o <<"decode">>],
                              decoded[1], t, writeOk)
               ELSE play(r1, raw_frame(pkt[1]), t, writeOk)

\* receiver_enhanced: one pass of the streaming loop; an exception out of
\* stream.write runs the finally block
Stream(d, dt, decoded, writeOk) ==
    /\ variant = "enhanced" /\ state = "STREAMING"
    /\ data' = Some(d) /\ fed' = fed + 1 /\ now' = now + dt
    /\ LET r == stream_step(d, now + dt, decoded, writeOk) IN
        /\ state' = r.state /\ exc' = r.exc
        /\ config' = r.config /\ decoder' = r.decoder
        /\ packet' = r.packet
        /\ packet_count' = r.packet_count
        /\ bytes_received' = r.bytes_received
        /\ total_latency_us' = r.total_latency_us
        /\ latency_count' = r.latency_count
        /\ buffer' = r.buffer /\ added' = r.added /\ sink' = r.sink
        /\ last_report' = r.last_report /\ reports' = r.reports
        /\ samples' = r.samples /\ line' = r.line
        /\ log' = r.log
        /\ sockOpen' = (r.state # "STOPPED")
        /\ sinkOpen' = (r.state # "STOPPED")
    /\ UNCHANGED <<variant, OPUS_AVAILABLE, maxlen, audio_packet_count, start_time,
                   summaries, unitVars, parseVars, guiVars>>

\* receiver_silent: one pass of the header wait loop
SilentHeaderWait(d, dt) ==
    /\ variant = "silent" /\ state = "AWAITING_HEADER"
    /\ data' = Some(d) /\ fed' = fed + 1 /\ now' = now + dt
    /\ config' = silent_parse_header(d)
    /\ IF config' = None
       THEN /\ audio_packet_count' = audio_packet_count + 1
            /\ log' = <<"not_header">>
            /\ UNCHANGED <<state, start_time, last_report, statVars>>
       ELSE /\ state' = "STREAMING"
            /\ log' = <<"header">>
            /\ StatsReset
            /\ start_time' = now' /\ last_report' = now'
            /\ UNCHANGED audio_packet_count
    /\ UNCHANGED <<variant, exc, sockOpen, sinkOpen, OPUS_AVAILABLE, decoder, packet,
                   reports, summaries, added, sink, outVars, jbVars, unitVars,
                   parseVars, guiVars>>

\* receiver_silent: one pass of the streaming loop
SilentStream(d, dt) ==
    /\ variant = "silent" /\ state = "STREAMING"
    /\ data' = Some(d) /\ fed' = fed + 1 /\ now' = now + dt
    /\ IF silent_is_header_datagram(d)
       THEN /\ log' = <<"skip_header">>
            /\ UNCHANGED <<statVars, last_report, reports, line>>
       ELSE /\ packet_count' = packet_count + 1
            /\ bytes_received' = bytes_received + Len(d)
            /\ UNCHANGED <<total_latency_us, latency_count>>
            /\ IF now' - last_report >= REPORT_INTERVAL_US
               THEN /\ reports' = reports + 1 /\ last_report' = now'
                    /\ line' = Some(silent_report_line(config[1], packet_count',
                                        bytes_received', now', start_time,
                                        last_report))
                    /\ log' = <<"count", "report">>
               ELSE /\ UNCHANGED <<reports, last_report, line>>
                    /\ log' = <<"count">>
    /\ UNCHANGED <<procVars, sessVars, audio_packet_count, packet, start_time,
                   summaries, added, sink, samples, jbVars, unitVars, parseVars, guiVars>>

\* the finally block: stream.stop_stream(); stream.close(); p.terminate();
\* sock.close()  (receiver_silent: sock.close())
Finally == sockOpen' = FALSE /\ sinkOpen' = FALSE

\* Ctrl-C while the script waits in recvfrom: the streaming loop's
\* except KeyboardInterrupt prints the summary and the finally block runs;
\* the header wait loop is outside the try
Interrupt(dt) ==
    /\ state \in {"AWAITING_HEADER", "STREAMING"}
    /\ state' = "STOPPED"
    /\ now' = now + dt
    /\ log' = <<"KeyboardInterrupt">>
    /\ IF state = "STREAMING"
       THEN /\ summaries' = summaries + 1
            /\ line' = Some(IF variant = "enhanced"
                            THEN summary_line(packet_count, bytes_received,
                                              total_latency_us, latency_count,
                                              now', start_time)
                            ELSE silent_summary_line(packet_count, bytes_received,
                                                     now', start_time))
            /\ exc' = None
            /\ Finally
       ELSE /\ exc' = Some("KeyboardInterrupt")
            /\ UNCHANGED <<summaries, line, sockOpen, sinkOpen>>
    /\ UNCHANGED <<variant, OPUS_AVAILABLE, sessVars, statVars, start_time,
                   last_report, audio_packet_count, data, packet, reports, added,
                   sink, fed, samples, jbVars, unitVars, parseVars, guiVars>>

\* sock.recvfrom raises: in the streaming loop the finally block runs and the
\* exception goes on; the header wait loop is outside the try
RecvError ==
    /\ state \in {"AWAITING_HEADER", "STREAMING"}
    /\ state' = "STOPPED"
    /\ exc' = Some("OSError")
    /\ log' = <<"OSError">>
    /\ IF state = "STREAMING"
       THEN Finally
       ELSE UNCHANGED <<sockOpen, sinkOpen>>
    /\ UNCHANGED <<variant, OPUS_AVAILABLE, sessVars, statVars, timeVars,
                   audio_packet_count, data, packet, reports, summaries, added,
                   sink, fed, outVars, jbVars, unitVars, parseVars, guiVars>>

\* datagrams the streaming loop has received
Streamed == fed - audio_packet_count - 1

NextRecv ==
    \/ \E d \in Datagrams, decInit \in BOOLEAN, so \in SinkOutcomes :
        /\ audio_packet_count < MaxSkip \/ parse_header(d) # None
        /\ HeaderWait(d, Tick, decInit, so)
    \/ \E d \in Datagrams, decoded \in DecodeOutcomes, writeOk \in BOOLEAN :
        /\ Streamed < MaxStream
        /\ Stream(d, Tick, decoded, writeOk)
    \/ \E d \in Datagrams :
        /\ audio_packet_count < MaxSkip \/ silent_parse_header(d) # None
        /\ SilentHeaderWait(d, Tick)
    \/ \E d \in Datagrams :
        /\ Streamed < MaxStream
        /\ SilentStream(d, Tick)
    \/ Interrupt(Tick)
    \/ RecvError

SpecRecv == InitRecv /\ [][NextRecv]_vars

\* --------------------- the stats figures on given accumulators (SpecStats)

\* sessions: 48000 Hz stereo raw, 44100 Hz mono Opus, 48000 Hz stereo Opus
StatsConfigs(v) ==
    IF v = "enhanced"
    THEN {parse_header(DG_HEADER_RAW), parse_header(DG_HEADER_OPUS),
          parse_header(HeaderDatagram(1, 48000, 2, 1))}
    ELSE {silent_parse_header(DG_HEADER_10)}

\* packets counted, and the bytes they may add up to
StatsPackets == {0, 1, 16, 1000}
StatsBytes == {0, 11, 1035, 200000, 1000000}

\* microseconds from start_time to the last report and to the clock read
StatsLastReport == {0, 6000000}
StatsElapsed == {2000000, 8000000}

\* the streaming loop with a session and accumulators as they may stand
\* when the clock is read for the stats
InitStats ==
    /\ variant \in {"enhanced", "silent"}
    /\ OPUS_AVAILABLE = FALSE
    /\ state = "STREAMING" /\ exc = None
    /\ sockOpen = TRUE /\ sinkOpen = (variant = "enhanced")
    /\ config \in StatsConfigs(variant) /\ decoder = None
    /\ audio_packet_count = 0 /\ data = None /\ packet = None
    /\ packet_count \in StatsPackets
    /\ bytes_received \in StatsBytes
    /\ bytes_received >= (IF variant = "enhanced" THEN 11 ELSE 0) * packet_count
    /\ bytes_received <= (IF variant = "enhanced" THEN 65536 ELSE 8192) * packet_count
    /\ latency_count = (IF variant = "enhanced" THEN packet_count ELSE 0)
    /\ samples = [i \in 1..latency_count |-> 5000]
    /\ total_latency_us = 5000 * latency_count
    /\ start_time \in {0, 1000000}
    /\ \E lr \in StatsLastReport, el \in StatsElapsed :
        /\ lr <= el
        /\ last_report = start_time + lr
        /\ now = start_time + el
    /\ reports = (IF last_report = start_time THEN 0 ELSE 1)
    /\ summaries = 0 /\ line = None
    /\ added = <<>> /\ sink = <<>> /\ log = <<>> /\ fed = 1 + packet_count
    /\ maxlen = JITTER_BUFFER_SIZE /\ buffer = <<>>
    /\ UnitIdle

\* the stats block at the end of an iteration, the clock reading now
StatsReport ==
    /\ state = "STREAMING" /\ packet_count > 0
    /\ now - last_report >= REPORT_INTERVAL_US
    /\ IF variant = "enhanced"
       THEN LET r == report([config |-> config, packet_count |-> packet_count,
                             bytes_received |-> bytes_received,
                             total_latency_us |-> total_latency_us,
                             latency_count |-> latency_count,
                             buffer |-> buffer, last_report |-> last_report,
                             reports |-> reports, line |-> line,
                             log |-> <<"count">>], now)
            IN /\ reports' = r.reports /\ last_report' = r.last_report
               /\ line' = r.line /\ log' = r.log
               /\ bytes_received' = r.bytes_received
       ELSE /\ reports' = reports + 1 /\ last_report' = now
            /\ line' = Some(silent_report_line(config[1], packet_count,
                                bytes_received, now, start_time, last_report))
            /\ log' = <<"count", "report">>
            /\ UNCHANGED bytes_received
    /\ UNCHANGED <<procVars, sessVars, packet_count, total_latency_us,
                   latency_count, now, start_time, audio_packet_count, data,
                   packet, summaries, added, sink, fed, samples, jbVars, unitVars,
                   parseVars, guiVars>>

NextStats == StatsReport \/ Interrupt(0)

SpecStats == InitStats /\ [][NextStats]_vars

\* ------------------------------- the receiver of the application (SpecGui)

\* SyncWaveApp.__init__: receiver_thread = None, receiver_running = False
InitGui ==
    /\ GuiIdle
    /\ maxlen = JITTER_BUFFER_SIZE /\ buffer = <<>>
    /\ CallIdle /\ ParseIdle
    /\ RecvIdle

\* toggle_receiver with receiver_running False, start_receiver up to
\* receiver_thread.start()
start_receiver_thread ==
    /\ gui_pc = "idle" /\ ~receiver_running
    /\ Len(threads) < MaxThreads
    /\ threads' = Append(threads, [pc |-> "start", sock |-> "none", err |-> None])
    /\ gui_pc' = "started"
    /\ UNCHANGED receiver_running

\* start_receiver after receiver_thread.start(): receiver_running = True
start_receiver_flag ==
    /\ gui_pc = "started"
    /\ receiver_running' = TRUE
    /\ gui_pc' = "idle"
    /\ UNCHANGED threads

\* toggle_receiver with receiver_running True: stop_receiver
stop_receiver ==
    /\ gui_pc = "idle" /\ receiver_running
    /\ receiver_running' = FALSE
    /\ UNCHANGED <<gui_pc, threads>>

\* run_receiver: socket.socket(...); sock.bind(...); a bind that raises is
\* printed by the outer except and the thread returns
run_receiver_bind(i, ok) ==
    /\ threads[i].pc = "start"
    /\ threads' = [threads EXCEPT ![i] =
                     IF ok THEN [@ EXCEPT !.pc = "test", !.sock = "open"]
                     ELSE [@ EXCEPT !.pc = "returned", !.sock = "open",
                                    !.err = Some("bind")]]
    /\ UNCHANGED <<receiver_running, gui_pc>>

\* run_receiver: while self.receiver_running
run_receiver_test(i) ==
    /\ threads[i].pc = "test"
    /\ threads' = [threads EXCEPT ![i].pc =
                     IF receiver_running THEN "recv" ELSE "close"]
    /\ UNCHANGED <<receiver_running, gui_pc>>

\* run_receiver: sock.recvfrom under a timeout of one second; a timeout
\* continues the loop, another exception is printed and breaks it
run_receiver_recv(i, outcome) ==
    /\ threads[i].pc = "recv"
    /\ threads' = [threads EXCEPT ![i] =
                     IF outcome = "error"
                     THEN [@ EXCEPT !.pc = "close", !.err = Some("OSError")]
                     ELSE [@ EXCEPT !.pc = "test"]]
    /\ UNCHANGED <<receiver_running, gui_pc>>

\* run_receiver: sock.close(), and the thread returns
run_receiver_close(i) ==
    /\ threads[i].pc = "close"
    /\ threads' = [threads EXCEPT ![i] = [@ EXCEPT !.pc = "returned",
                                                   !.sock = "closed"]]
    /\ UNCHANGED <<receiver_running, gui_pc>>

RecvOutcomes == {"data", "timeout", "error"}

NextGui ==
    \/ /\ \/ start_receiver_thread
          \/ start_receiver_flag
          \/ stop_receiver
          \/ \E i \in 1..Len(threads) :
                \/ \E ok \in BOOLEAN : run_receiver_bind(i, ok)
                \/ run_receiver_test(i)
                \/ \E outcome \in RecvOutcomes : run_receiver_recv(i, outcome)
                \/ run_receiver_close(i)
       /\ UNCHANGED <<jbVars, unitVars, recvVars, parseVars>>

SpecGui == InitGui /\ [][NextGui]_vars

\* ------------------------- end-to-end scenario, receiver_enhanced (SpecE2E)

\* the payload of the k-th frame: E2EPayloadLen bytes of value k
E2EPayload(k) == [i \in 1..E2EPayloadLen |-> k % 256]

\* a 12-byte header (48000 Hz, 2 channels, raw), then E2EFrames raw frames
E2EScript ==
    <<DG_HEADER_RAW>> \o
    [k \in 1..E2EFrames |->
        AudioDatagram(PACKET_TYPE_RAW, k * E2ESpacing, E2EPayloadLen, E2EPayload(k))]

InitE2E ==
    /\ variant = "enhanced"
    /\ OPUS_AVAILABLE \in BOOLEAN
    /\ state = "AWAITING_HEADER" /\ exc = None
    /\ sockOpen = TRUE /\ sinkOpen = FALSE
    /\ config = None /\ decoder = None
    /\ audio_packet_count = 0 /\ data = None /\ packet = None
    /\ packet_count = 0 /\ bytes_received = 0
    /\ total_latency_us = 0 /\ latency_count = 0
    /\ now \in {k * 1000 : k \in 0..E2ESkewMax}
    /\ start_time = 0 /\ last_report = 0
    /\ reports = 0 /\ summaries = 0
    /\ added = <<>> /\ sink = <<>> /\ log = <<>> /\ fed = 0
    /\ samples = <<>> /\ line = None
    /\ maxlen = JITTER_BUFFER_SIZE /\ buffer = <<>>
    /\ UnitIdle

NextE2E ==
    \/ /\ fed < Len(E2EScript)
       /\ \E decInit \in BOOLEAN :
            HeaderWait(E2EScript[fed + 1], E2ESpacing, decInit, "ok")
    \/ /\ fed < Len(E2EScript)
       /\ Stream(E2EScript[fed + 1], E2ESpacing, None, TRUE)

SpecE2E == InitE2E /\ [][NextE2E]_vars

\* ----------------------------------------------------------------- claims

\* C1: after any sequence of add and get calls, size() is between 0 and
\* the capacity N (maxlen) inclusive.
C1_OccupancyBounded ==
    /\ JitterBuffer_size(buffer) >= 0
    /\ JitterBuffer_size(buffer) <= maxlen
    /\ (op = "size" => ret # None /\ ret[1] >= 0 /\ ret[1] <= maxlen)

\* an add found the buffer full, after gets had already returned frames
C1_Witness ==
    /\ op = "add" /\ Len(prev) = maxlen /\ Len(buffer) = maxlen
    /\ returned # <<>>

\* C2: get returns and removes a frame only if it found at least
\* JITTER_BUFFER_MIN frames; with fewer it returns None and leaves the
\* buffer as it was, on every call and not only before the first frame.
C2_GetGated ==
    op = "get" =>
        /\ (Len(prev) < JITTER_BUFFER_MIN => ret = None /\ buffer = prev)
        /\ (ret # None => Len(prev) >= JITTER_BUFFER_MIN)
        /\ (buffer # prev => Len(prev) >= JITTER_BUFFER_MIN /\ ret # None)

\* gets drained the buffer below the watermark and the next get got nothing
C2_Witness ==
    /\ op = "get" /\ ret = None
    /\ returned # <<>>
    /\ Len(prev) = JITTER_BUFFER_MIN - 1

\* C3: the frames successful gets return come out in push order: each was
\* pushed before, none comes twice, none comes after a frame pushed later.
C3_Fifo ==
    /\ \A i \in 1..Len(returned) : returned[i] \in 1..pushed
    /\ StrictlyIncreasing(returned)

\* two frames were returned while more than the watermark was buffered
C3_Witness ==
    /\ Len(returned) >= 2
    /\ op = "get" /\ ret # None /\ Len(prev) > JITTER_BUFFER_MIN

\* C4: add on a full buffer drops exactly the oldest frame and appends the
\* new one as the newest, the rest keeping their order; add below capacity
\* drops nothing and raises the occupancy by one.
C4_AddDropsOldest ==
    op = "add" =>
        /\ (Len(prev) = maxlen =>
                /\ buffer = Append(Tail(prev), arg[1])
                /\ Len(buffer) = maxlen)
        /\ (Len(prev) < maxlen =>
                /\ buffer = Append(prev, arg[1])
                /\ Len(buffer) = Len(prev) + 1)

\* an add found a full buffer of at least two frames
C4_Witness ==
    op = "add" /\ Len(prev) = maxlen /\ maxlen >= 2

\* C5: with a producer thread in add and a consumer thread in get and size,
\* each method acts atomically under the lock: the two threads are never
\* inside the lock together, no add falls between get's length test and its
\* popleft, popleft never runs on fewer than JITTER_BUFFER_MIN frames, no
\* frame is returned twice, every pushed frame is buffered, returned or was
\* dropped by a full deque, and the occupancy never exceeds the capacity.
C5_AtomicUnderLock ==
    /\ ~(pcP \in {"append", "release"} /\ pcC \in {"test", "popleft", "len", "release"})
    /\ (pcC = "popleft" => seen = Some(buffer) /\ Len(buffer) >= JITTER_BUFFER_MIN)
    /\ StrictlyIncreasing(returned)
    /\ StrictlyIncreasing(buffer)
    /\ Range(returned) \cup Range(buffer) \cup evicted = 1..pushed
    /\ Range(returned) \cap Range(buffer) = {}
    /\ Range(returned) \cap evicted = {}
    /\ Range(buffer) \cap evicted = {}
    /\ Len(buffer) <= maxlen

\* the producer waits for the lock while the consumer is between get's
\* length test and its popleft, on a full buffer that has dropped a frame
C5_Witness ==
    /\ pcC = "popleft" /\ pcP = "idle" /\ lock = "consumer"
    /\ pushed < MaxPush
    /\ Len(buffer) = maxlen /\ evicted # {} /\ returned # <<>>

\* the script's own parse_header
header_parse(v, d) ==
    IF v = "silent" THEN silent_parse_header(d) ELSE parse_header(d)

\* C6: the receiver only moves AWAITING_HEADER -> STREAMING -> STOPPED. It
\* enters STREAMING only on a datagram its parse_header accepts, nothing is
\* counted, decoded, buffered or played while it awaits the header, it never
\* goes back from STREAMING to AWAITING_HEADER and never leaves STOPPED.
C6_StateOrder ==
    [][ /\ (state = "STREAMING" => state' \in {"STREAMING", "STOPPED"})
        /\ (state = "STOPPED" => state' = "STOPPED")
        /\ (state = "AWAITING_HEADER" /\ state' = "STREAMING" =>
                /\ data' # None
                /\ header_parse(variant, data'[1]) # None
                /\ config' = header_parse(variant, data'[1]))
        /\ (state' = "AWAITING_HEADER" =>
                /\ added' = <<>> /\ sink' = <<>> /\ buffer' = <<>>
                /\ packet' = None /\ packet_count' = 0 /\ latency_count' = 0
                /\ config' = None /\ decoder' = None)
      ]_vars

\* a run that skipped a datagram, streamed, played a frame and was stopped
C6_Witness ==
    /\ state = "STOPPED" /\ exc = None
    /\ audio_packet_count > 0 /\ sink # <<>>

\* C7: whenever the receiver has terminated, the socket is closed and the
\* sink is released.
C7_CleanupOnEveryExit ==
    state = "STOPPED" => ~sockOpen /\ ~sinkOpen

\* C8: in a session whose header declared compression and that has no
\* decoder, the payload of a compressed packet is not pushed into the
\* jitter buffer.
C8_NoUndecodedPush ==
    ( /\ variant = "enhanced"
      /\ config # None /\ config[1].compression = 1 /\ decoder = None
      /\ packet # None /\ packet[1].type = PACKET_TYPE_OPUS )
    => /\ "push" \notin Range(log)
       /\ packet[1].data \notin Range(buffer)
       /\ packet[1].data \notin Range(sink)

\* C9: once the session exists, config and decoder never change, whatever
\* datagram arrives.
C9_SessionImmutable ==
    [][config # None => config' = config /\ decoder' = decoder]_vars

\* the streaming loop received a header that carries other parameters than
\* the session's
C9_Witness ==
    /\ variant = "enhanced" /\ state = "STREAMING" /\ Streamed >= 1
    /\ data # None /\ is_header_datagram(data[1])
    /\ parse_header(data[1]) # config

\* C10: end to end, the header puts the receiver into STREAMING, nothing is
\* written to the sink before the third frame is buffered, and from then on
\* each frame received makes the next frame of the original order reach the
\* sink: after k frames the sink holds frames 1..k-2, in order, once each.
C10_EndToEnd ==
    /\ (fed = 0 => state = "AWAITING_HEADER")
    /\ (fed >= 1 =>
            /\ state = "STREAMING"
            /\ added = [i \in 1..Streamed |-> E2EPayload(i)]
            /\ (Streamed < JITTER_BUFFER_MIN => sink = <<>>)
            /\ (Streamed >= JITTER_BUFFER_MIN =>
                    sink = [i \in 1..(Streamed - JITTER_BUFFER_MIN + 1) |-> E2EPayload(i)]))

\* the whole script was received and all but the last two frames were played
C10_Witness ==
    /\ fed = Len(E2EScript)
    /\ Len(sink) = E2EFrames - 2
    /\ sink[1] = E2EPayload(1)

\* the field of a parsed header, if the header has it
field(h, name) == IF name \in DOMAIN h THEN Some(h[name]) ELSE None

\* C11: for every 10-byte and every 12-byte datagram that starts with the
\* magic, parse_header returns a header whose fields are the values encoded
\* in that layout: sample rate and channels at offsets 4 and 8 of the basic
\* layout; version, sample rate, channels and compression at offsets 4, 5,
\* 9 and 11 of the extended layout.
C11_FieldsMatchLayout ==
    (/\ parser \in {"parse_header", "silent_parse_header"}
     /\ slice(dgram, 0, 4) = HEADER_MAGIC
     /\ Len(dgram) \in {10, 12})
    => /\ parsed # None
       /\ LET h == parsed[1] IN
          IF Len(dgram) = 10
          THEN /\ field(h, "sample_rate") = Some(unpack_le(slice(dgram, 4, 8)))
               /\ field(h, "channels") = Some(unpack_le(slice(dgram, 8, 10)))
          ELSE /\ field(h, "version") = Some(dgram[5])
               /\ field(h, "sample_rate") = Some(unpack_le(slice(dgram, 5, 9)))
               /\ field(h, "channels") = Some(unpack_le(slice(dgram, 9, 11)))
               /\ field(h, "compression") = Some(dgram[12])

\* C12: parse_header accepts a datagram only at the exact length of its
\* layout, 10 bytes (basic) or 12 bytes (extended): a shorter or longer
\* datagram is never a header, even with the magic.
C12_ExactLength ==
    /\ (parser = "parse_header" /\ parsed # None => Len(dgram) = 12)
    /\ (parser = "silent_parse_header" /\ parsed # None => Len(dgram) = 10)

\* the least header length of the parse function that ran
min_header_len == IF parser = "parse_header" THEN 12 ELSE 10

\* C13: parse_header returns no header for a datagram whose first four
\* bytes are not the magic and for a datagram shorter than the least
\* header length, and reads no offset outside the datagram.
C13_RejectsBadHeaders ==
    parser \in {"parse_header", "silent_parse_header"}
    => /\ (slice(dgram, 0, 4) # HEADER_MAGIC => parsed = None)
       /\ (Len(dgram) < min_header_len => parsed = None)
       /\ reads \subseteq 0..(Len(dgram) - 1)

\* a datagram of header length and more with a wrong magic was rejected,
\* after its first four bytes were read
C13_Witness ==
    /\ parser = "parse_header" /\ Len(dgram) >= 12
    /\ slice(dgram, 0, 4) \in BadMagics
    /\ parsed = None /\ reads = 0..3

\* C14: for a datagram of length L >= 11 that declares payload size S,
\* parse_audio_packet returns the min(S, L - 11) bytes that start at offset
\* 11, never more than what remains, and reads nothing past the datagram.
C14_PayloadClamped ==
    (parser = "parse_audio_packet" /\ Len(dgram) >= 11)
    => LET S == dgram[10] + 256 * dgram[11]
           L == Len(dgram)
           n == IF S < L - 11 THEN S ELSE L - 11
       IN /\ parsed # None
          /\ Len(parsed[1].data) = n
          /\ \A i \in 1..n : parsed[1].data[i] = dgram[11 + i]
          /\ reads \subseteq 0..(L - 1)

\* a datagram that declares more payload than it carries was parsed, and
\* the payload is what it carries
C14_Witness ==
    /\ parser = "parse_audio_packet" /\ Len(dgram) > 11
    /\ dgram[10] + 256 * dgram[11] > Len(dgram) - 11
    /\ parsed # None /\ Len(parsed[1].data) = Len(dgram) - 11

\* C15: parse_audio_packet returns no packet exactly when the datagram is
\* shorter than the 11-byte prefix, and the call changes nothing of the
\* receiver: counters, session, jitter buffer and sink stay as they were.
C15_FailsOnlyWhenShort ==
    [][parser' = "parse_audio_packet"
       => /\ (parsed' = None <=> Len(dgram) < 11)
          /\ UNCHANGED <<dgram, jbVars, recvVars>>]_vars

\* an 11-byte datagram, the prefix alone, was parsed into a packet with
\* an empty payload
C15_Witness ==
    /\ parser = "parse_audio_packet" /\ Len(dgram) = 11
    /\ parsed # None /\ parsed[1].data = <<>>

\* C16: in AWAITING_HEADER a datagram that parse_header rejects adds one to
\* the count of skipped datagrams and does nothing else: no session, the
\* state stays AWAITING_HEADER, and the statistics, the jitter buffer and
\* the sink are untouched; on entry to STREAMING all of them are zero or
\* empty.
C16_RejectedOnlyCounted ==
    [][(state = "AWAITING_HEADER" /\ fed' = fed + 1)
       => IF header_parse(variant, data'[1]) = None
          THEN /\ audio_packet_count' = audio_packet_count + 1
               /\ state' = "AWAITING_HEADER"
               /\ UNCHANGED <<sessVars, statVars, jbVars, added, sink>>
               /\ UNCHANGED <<exc, sockOpen, sinkOpen, start_time, last_report>>
          ELSE /\ audio_packet_count' = audio_packet_count
               /\ state' = "STREAMING"
                  => /\ packet_count' = 0 /\ bytes_received' = 0
                     /\ total_latency_us' = 0 /\ latency_count' = 0
                     /\ buffer' = <<>> /\ added' = <<>> /\ sink' = <<>>]_vars

\* a header started the session after a datagram had been skipped
C16_Witness ==
    /\ state = "STREAMING" /\ log = <<"header">>
    /\ audio_packet_count >= 1 /\ packet_count = 0

\* the duplicate-header test of the script that runs
is_duplicate_header(v, d) ==
    IF v = "enhanced" THEN is_header_datagram(d) ELSE silent_is_header_datagram(d)

\* C17: in STREAMING a datagram of exactly the header length that starts
\* with the magic is skipped before any audio parsing: packet count, byte
\* count, latency sum and count, jitter buffer, sink and session are
\* unchanged.
C17_DuplicateHeaderSkipped ==
    [][(state = "STREAMING" /\ fed' = fed + 1
          /\ is_duplicate_header(variant, data'[1]))
       => /\ UNCHANGED <<statVars, jbVars, added, sink, sessVars>>
          /\ state' = "STREAMING"
          /\ packet' = None
          /\ log' = <<"skip_header">>]_vars

\* a header datagram was skipped after audio had been counted
C17_Witness ==
    /\ state = "STREAMING" /\ log = <<"skip_header">>
    /\ data # None /\ is_duplicate_header(variant, data[1])
    /\ packet_count >= 1

\* what an iteration did to the packet, leaving out latency and report
is_play_step(x) == x \notin {"latency", "report"}
steps(l) == SelectSeq(l, is_play_step)

PlayOrders ==
    {<<"count">> \o dec \o <<"push", "pop">> \o wr :
        dec \in {<<>>, <<"decode">>},
        wr \in {<<>>, <<"write">>, <<"write_error">>}}

\* the streaming loop of receiver_enhanced receives a datagram that
\* parse_audio_packet accepts / rejects
StreamAccepted ==
    /\ variant = "enhanced" /\ state = "STREAMING" /\ fed' = fed + 1
    /\ ~is_header_datagram(data'[1])
    /\ parse_audio_packet(data'[1]) # None

StreamRejected ==
    /\ variant = "enhanced" /\ state = "STREAMING" /\ fed' = fed + 1
    /\ ~is_header_datagram(data'[1])
    /\ parse_audio_packet(data'[1]) = None

\* counters, then decode, then one push, one pop after it, and at most one
\* write, of the frame the pop returned
PlaysOnce ==
    /\ steps(log') \in PlayOrders
    /\ packet_count' = packet_count + 1
    /\ bytes_received' = bytes_received + Len(data'[1])
    /\ Len(added') = Len(added) + 1
    /\ LET full == deque_append(buffer, maxlen, added'[Len(added')]) IN
        IF Len(full) >= JITTER_BUFFER_MIN
        THEN /\ buffer' = Tail(full)
             /\ sink' \in {sink, Append(sink, Head(full))}
        ELSE /\ buffer' = full
             /\ sink' = sink
    /\ ("write" \in Range(log') <=> sink' # sink)
    /\ Range(sink') \subseteq Range(added')

ChangesNothing ==
    /\ UNCHANGED <<statVars, jbVars, added, sink, sessVars>>
    /\ UNCHANGED <<state, exc, sockOpen, sinkOpen, last_report, reports>>

\* C18 as stated: every datagram parse_audio_packet accepts in STREAMING is
\* counted, decoded, pushed once, followed by exactly one pop and at most
\* one sink write, in this order; a datagram it rejects changes nothing.
C18_EveryAcceptedPlays ==
    [][/\ (StreamAccepted => PlaysOnce)
       /\ (StreamRejected => ChangesNothing)]_vars

\* C18, amended: every datagram parse_audio_packet accepts in STREAMING and
\* whose decoding does not raise is counted, decoded, pushed once, followed
\* by exactly one pop and at most one sink write, in this order; no frame is
\* written before it was pushed; a datagram parse_audio_packet rejects
\* changes nothing. (An accepted datagram whose decoding raises is counted
\* and then dropped: no push, no pop.)
C18_AcceptedAndDecodedPlays ==
    [][/\ (StreamAccepted /\ "decode_error" \notin Range(log') => PlaysOnce)
       /\ (StreamAccepted /\ "decode_error" \in Range(log')
             => /\ steps(log') = <<"count", "decode_error">>
                /\ packet_count' = packet_count + 1
                /\ UNCHANGED <<jbVars, added, sink>>)
       /\ (StreamRejected => ChangesNothing)]_vars

\* the third frame was pushed, the pop after it returned the first frame,
\* and that frame was written
C18_Witness ==
    /\ variant = "enhanced" /\ state = "STREAMING"
    /\ steps(log) \in PlayOrders /\ "write" \in Range(log)
    /\ Len(added) = JITTER_BUFFER_MIN /\ sink = <<added[1]>>
    /\ Len(buffer) = JITTER_BUFFER_MIN - 1

\* C19: when the decoder raises for a compressed frame, the frame is not
\* pushed and nothing is written for that datagram, the receiver stays in
\* STREAMING with no cleanup, and the next datagram is processed normally.
C19_DecodeErrorDropsFrame ==
    [][/\ (StreamAccepted /\ "decode_error" \in Range(log')
            => /\ UNCHANGED <<jbVars, added, sink, sessVars, summaries>>
               /\ state' = "STREAMING" /\ exc' = None
               /\ sockOpen' /\ sinkOpen')
       /\ (StreamAccepted /\ "decode_error" \in Range(log)
              /\ "decode_error" \notin Range(log')
            => PlaysOnce)]_vars

\* after a decode error, a later compressed frame was decoded and pushed
C19_Witness ==
    /\ state = "STREAMING" /\ decoder # None
    /\ "decode" \in Range(log) /\ "push" \in Range(log)
    /\ packet_count > Len(added)

\* C20 as stated: during STREAMING packet count, byte count, latency sum
\* and latency count never decrease from one step to the next.
C20_NeverDecrease ==
    [][state = "STREAMING"
       => /\ packet_count' >= packet_count
          /\ bytes_received' >= bytes_received
          /\ total_latency_us' >= total_latency_us
          /\ latency_count' >= latency_count]_vars

\* C20, amended: during STREAMING packet count, byte count and latency
\* count never decrease from one step to the next; the latency sum changes
\* by receive time minus origin timestamp of each accepted datagram, so it
\* decreases exactly when the origin timestamp is later than the receive
\* time. All four are set to zero only where the session is created.
C20_CountsNeverDecrease ==
    [][/\ state = "STREAMING"
          => /\ packet_count' >= packet_count
             /\ bytes_received' >= bytes_received
             /\ latency_count' >= latency_count
             /\ (total_latency_us' < total_latency_us
                   <=> (StreamAccepted /\ packet'[1].timestamp > now'))
       /\ (state = "AWAITING_HEADER" /\ state' = "STREAMING")
          => statVars' = <<0, 0, 0, 0>>]_vars

\* a datagram stamped later than the receive clock was counted, and the
\* latency sum went below zero while the counts went up
C20_Witness ==
    /\ state = "STREAMING" /\ packet # None
    /\ packet[1].timestamp > now
    /\ total_latency_us < 0 /\ packet_count >= 1 /\ latency_count >= 1

RECURSIVE Sum(_)
Sum(q) == IF q = <<>> THEN 0 ELSE Head(q) + Sum(Tail(q))

\* the stats line in line was printed by the step that led to this state
JustPrinted ==
    line # None /\ ("report" \in Range(log) \/ log = <<"KeyboardInterrupt">>)

\* C21: the latency sample of an accepted datagram is the receive time
\* minus the origin timestamp, unfiltered (5000 for T and T+5000, negative
\* when the origin is later); the running sum is the sum of all samples of
\* the session, and the average printed is sum/count (in milliseconds), or
\* 0 when the count is 0.
C21_LatencyExact ==
    variant = "enhanced"
    => /\ total_latency_us = Sum(samples)
       /\ latency_count = Len(samples)
       /\ (log # <<>> /\ log[1] = "count"
            => samples[Len(samples)] = now - unpack_le(slice(data[1], 1, 9)))
       /\ (JustPrinted
            => LET avg == line[1].avg_latency_ms[1] IN
               IF latency_count = 0 THEN avg.n = 0
               ELSE avg.n * latency_count * 1000 = total_latency_us * avg.d)

\* a sample of 5000 and a negative sample were added, and the report after
\* them printed their average
C21_Witness ==
    /\ variant = "enhanced" /\ "report" \in Range(log)
    /\ 5000 \in Range(samples)
    /\ \E i \in 1..Len(samples) : samples[i] < 0
    /\ line[1].avg_latency_ms[1].n < 0

\* C22: the throughput printed is cumulative_bytes * 8 / (elapsed_seconds *
\* 1000) kbps, with the bytes and the time of the whole session since its
\* creation, not of the last interval; 1,000,000 bytes in 8 seconds print
\* 1000 kbps.
C22_ThroughputWholeSession ==
    JustPrinted
    => LET kbps == line[1].kbps
           elapsed_ms == rat(now - start_time, 1000)
       IN /\ rmul(kbps, elapsed_ms) = int(bytes_received * 8)
          /\ (bytes_received = 1000000 /\ now - start_time = 8000000
               => kbps = int(1000))

\* a report later than the first one printed 1000 kbps for 1,000,000 bytes
\* in 8 seconds
C22_Witness ==
    /\ JustPrinted /\ line[1].kind = "report" /\ reports = 2
    /\ bytes_received = 1000000 /\ now - start_time = 8000000
    /\ line[1].kbps = int(1000)

\* C23: a compression ratio is printed if and only if the session's
\* compression flag is 1, and it is (kbps * 1000) / (sample_rate * channels
\* * 32) * 100: about 6.5 for 48000 Hz, 2 channels and 200 kbps.
C23_CompressionRatio ==
    (JustPrinted /\ variant = "enhanced" /\ line[1].kind = "report")
    => LET c == config[1]
           kbps == line[1].kbps
           ratio == line[1].compression_ratio
       IN /\ (ratio # None <=> c.compression = 1)
          /\ (ratio # None
               => rmul(ratio[1], int(c.sample_rate * c.channels * 32))
                    = rmul(kbps, int(100000)))
          /\ (ratio # None /\ kbps = int(200) /\ c.sample_rate = 48000
                 /\ c.channels = 2
               => /\ 10 * ratio[1].n >= 65 * ratio[1].d
                  /\ 10 * ratio[1].n < 66 * ratio[1].d)

\* a 48000 Hz, 2-channel compressed session at 200 kbps printed a ratio
C23_Witness ==
    /\ JustPrinted /\ variant = "enhanced" /\ line[1].kind = "report"
    /\ config[1].compression = 1 /\ config[1].sample_rate = 48000
    /\ config[1].channels = 2
    /\ line[1].kbps = int(200) /\ line[1].compression_ratio # None

\* C24: an error of the sink write or of the socket receive (not a timeout)
\* ends the session, propagates to the caller and is not swallowed, and the
\* cleanup has run when the receiver is stopped. For the receiver thread of
\* the application: a thread whose receive raised has not returned normally.
C24_ErrorsPropagate ==
    \A i \in 1..Len(threads) :
        threads[i].err = Some("OSError") => threads[i].pc # "returned"

\* C25: once the stop signal is raised (Ctrl-C for the scripts), the
\* receive loop handles no further datagram and reaches STOPPED with its
\* socket closed.
C25_CancelClosesSocket ==
    (variant \in {"enhanced", "silent"} /\ log = <<"KeyboardInterrupt">>)
    => state = "STOPPED" /\ ~sockOpen

\* the receiver stopped after its session had been created
StoppedAfterSession ==
    state = "STOPPED" /\ config # None /\ log # <<"header">>

\* C26: every stop after the session exists prints the final summary
\* exactly once, with total packets, total bytes, average bitrate and
\* average latency from the accumulators as they stand at shutdown,
\* whether the receiver was cancelled or failed.
C26_SummaryOnEveryStop ==
    StoppedAfterSession
    => /\ summaries = 1
       /\ line # None /\ line[1].kind = "summary"
       /\ line[1].packets = packet_count
       /\ line[1].bytes = bytes_received
       /\ rmul(line[1].kbps, rat(now - start_time, 1000)) = int(bytes_received * 8)
       /\ (variant = "enhanced"
            => line[1].avg_latency_ms = Some(avg_latency_ms(total_latency_us,
                                                            latency_count)))

\* C27: during STREAMING two reports are never less than 2 seconds apart,
\* and whenever 2 seconds have passed since the last report (or since the
\* session was created) a report is printed, whether the datagram was
\* played, skipped or failed to decode.
C27_ReportCadence ==
    [][(state = "STREAMING" /\ state' = "STREAMING" /\ fed' = fed + 1)
       => /\ reports' \in {reports, reports + 1}
          /\ (reports' = reports + 1 => now' - last_report >= REPORT_INTERVAL_US)
          /\ (now' - last_report >= REPORT_INTERVAL_US => reports' = reports + 1)]_vars

\* C28: for a packet of type 0 the frame pushed into the jitter buffer is
\* byte for byte the payload parse_audio_packet returned, the bytes of the
\* datagram from offset 11, whether or not the session has a decoder; what
\* is written to the sink later is a frame that was pushed.
C28_RawPassThrough ==
    [][(StreamAccepted /\ data'[1][1] = PACKET_TYPE_RAW)
       => LET d == data'[1]
              payload == parse_audio_packet(d)[1].data
          IN /\ added' = Append(added, payload)
             /\ \A i \in 1..Len(payload) : payload[i] = d[11 + i]
             /\ buffer' \in {Append(buffer, payload), Tail(Append(buffer, payload))}
             /\ (sink' # sink
                  => \E j \in 1..Len(added') : sink' = Append(sink, added'[j]))]_vars

\* in a session with a decoder, a raw payload was pushed as it came and a
\* raw payload pushed before was written
C28_Witness ==
    /\ variant = "enhanced" /\ state = "STREAMING" /\ decoder # None
    /\ packet # None /\ packet[1].type = PACKET_TYPE_RAW
    /\ packet[1].data = <<7, 8>>
    /\ "push" \in Range(log) /\ added[Len(added)] = <<7, 8>>
    /\ "write" \in Range(log) /\ sink = <<<<7, 8>>>>

\* the streaming loop counted the datagram in data and pushed a frame
Pushed == log # <<>> /\ log[1] = "count" /\ "push" \in Range(log)

\* C29: in a session whose header declared compression 0, the payload of a
\* packet whose type is not 0 is never pushed or written as PCM: only type
\* 0 packets reach the buffer undecoded, and the decoder runs exactly for
\* type 1 packets of a session that declared compression 1.
C29_OnlyRawUndecoded ==
    (variant = "enhanced" /\ log # <<>> /\ log[1] = "count")
    => /\ (config[1].compression = 0 /\ packet[1].type # PACKET_TYPE_RAW
            => ~Pushed)
       /\ (Pushed /\ "decode" \notin Range(log)
            => packet[1].type = PACKET_TYPE_RAW)
       /\ ({"decode", "decode_error"} \cap Range(log) # {}
            <=> packet[1].type = PACKET_TYPE_OPUS /\ config[1].compression = 1)

\* C30: every frame the streaming loop removes from the jitter buffer with
\* get is written to the sink, a zero-length payload included: no frame is
\* removed and then dropped.
C30_PoppedIsWritten ==
    [][(/\ variant = "enhanced" /\ state = "STREAMING" /\ fed' = fed + 1
        /\ Len(added') = Len(added) + 1
        /\ Len(buffer') <= Len(buffer)
        /\ exc' = None)
       => sink' = Append(sink, Head(Append(buffer, added'[Len(added')])))]_vars

\* C31: in the streaming loop (one push then one pop for each accepted
\* datagram, capacity 10, watermark 3) the jitter buffer holds at most 3
\* frames at every point and at most 2 after each iteration, so the deque
\* never drops its oldest frame: a pushed frame only leaves by get.
C31_LoopOccupancy ==
    [][(variant = "enhanced" /\ state = "STREAMING" /\ fed' = fed + 1)
       => /\ Len(buffer') <= JITTER_BUFFER_MIN - 1
          /\ (added' # added
               => LET frame == added'[Len(added')]
                      held == JitterBuffer_add(buffer, maxlen, frame)
                  IN /\ added' = Append(added, frame)
                     /\ deque_dropped(buffer, maxlen) = {}
                     /\ held = Append(buffer, frame)
                     /\ Len(held) <= JITTER_BUFFER_MIN
                     /\ buffer' = (IF Len(held) = JITTER_BUFFER_MIN
                                   THEN Tail(held) ELSE held))
          /\ (added' = added => buffer' = buffer)]_vars

\* the push filled the buffer to the watermark and get took the oldest
\* frame, leaving two
C31_Witness ==
    /\ variant = "enhanced" /\ state = "STREAMING" /\ maxlen = JITTER_BUFFER_SIZE
    /\ Len(added) = JITTER_BUFFER_MIN
    /\ Len(buffer) = JITTER_BUFFER_MIN - 1
    /\ buffer = Tail(added)
    /\ "pop" \in Range(log)

\* C32: between two iterations of the streaming loop, latency count equals
\* packet count, and both count the datagrams parse_audio_packet accepted
\* since the session was created, decoded or not; byte count is the sum of
\* the full lengths of those datagrams, prefix included.
C32_CountersAgree ==
    [][(variant = "enhanced" /\ state' = "STREAMING")
       => /\ latency_count' = packet_count'
          /\ (state = "AWAITING_HEADER"
               => packet_count' = 0 /\ bytes_received' = 0)
          /\ (state = "STREAMING" /\ fed' = fed + 1
               => LET d == data'[1]
                      accepted == ~is_header_datagram(d)
                                  /\ parse_audio_packet(d) # None
                  IN /\ packet_count' = packet_count + (IF accepted THEN 1 ELSE 0)
                     /\ bytes_received' =
                            bytes_received + (IF accepted THEN Len(d) ELSE 0))]_vars

\* an accepted packet failed to decode and was counted in all three
\* counters
C32_Witness ==
    /\ variant = "enhanced" /\ state = "STREAMING"
    /\ "decode_error" \in Range(log)
    /\ data = Some(DG_OPUS)
    /\ packet_count >= 1 /\ latency_count = packet_count
    /\ bytes_received >= Len(DG_OPUS)

\* C33: a JitterBuffer of any capacity of 1 or more can start playback:
\* once JITTER_BUFFER_MIN frames have been added and no get has returned a
\* frame yet, the next get returns one.
C33_PlaybackCanStart ==
    (op = "get" /\ maxlen >= 1 /\ pushed >= JITTER_BUFFER_MIN)
    => returned # <<>>

\* C34: in the application, whatever the sequence of start_receiver and
\* stop_receiver calls, at most one receiver thread is running at any time,
\* and a thread started before a stop_receiver call is never kept in its
\* loop by a later start_receiver: once a later thread exists, an earlier
\* one does not pass the loop test again.
C34_OneReceiverThread ==
    [][/\ Cardinality({i \in 1..Len(threads') : threads'[i].pc # "returned"}) <= 1
       /\ \A i \in 1..(Len(threads) - 1) :
             ~(threads[i].pc = "test" /\ threads'[i].pc = "recv")]_vars

====
